---- MODULE Spec2Model ----
(***************************************************************************)
(* Model of the PGR competency checklist converter                         *)
(* (scripts/convert_pdf_to_competency_bundle.py): text extraction, the     *)
(* section parser, the bundle builder and the legacy-defaults merge of     *)
(* main.                                                                   *)
(*                                                                         *)
(* A Python str is a sequence of one-character strings, so that upper(),   *)
(* split(), strip(), startswith() and the regular expressions are computed *)
(* character by character.  The character "~" stands for the en dash       *)
(* U+2013 (module text is ASCII); no input holds a real tilde.             *)
(***************************************************************************)
EXTENDS Integers, Sequences, FiniteSets, TLC

(***************************************************************************)
(* Python str primitives                                                   *)
(***************************************************************************)

\* A str literal as a sequence of characters.
Chars(s) == SubSeq([k \in 1..Len(s) |-> SubSeq(s, k, k)], 1, Len(s))

LOWERCASE == Chars("abcdefghijklmnopqrstuvwxyz")
UPPERCASE == Chars("ABCDEFGHIJKLMNOPQRSTUVWXYZ")
DIGITS == Chars("0123456789")
WHITESPACE == {" ", "\t"}
EN_DASH == "~"

InSeq(c, s) == \E k \in 1..Len(s) : s[k] = c
IndexOf(c, s) == CHOOSE k \in 1..Len(s) : s[k] = c

\* str.islower() / str.isupper() of one character, \d and \s of re.
char_islower(c) == InSeq(c, LOWERCASE)
char_isupper(c) == InSeq(c, UPPERCASE)
char_isdigit(c) == InSeq(c, DIGITS)
char_isspace(c) == c \in WHITESPACE

char_upper(c) == IF char_islower(c) THEN UPPERCASE[IndexOf(c, LOWERCASE)] ELSE c
char_lower(c) == IF char_isupper(c) THEN LOWERCASE[IndexOf(c, UPPERCASE)] ELSE c

RECURSIVE str_upper(_)
str_upper(s) == IF s = <<>> THEN <<>> ELSE <<char_upper(Head(s))>> \o str_upper(Tail(s))

RECURSIVE str_lower(_)
str_lower(s) == IF s = <<>> THEN <<>> ELSE <<char_lower(Head(s))>> \o str_lower(Tail(s))

RECURSIVE str_lstrip(_)
str_lstrip(s) ==
    IF s # <<>> /\ char_isspace(Head(s)) THEN str_lstrip(Tail(s)) ELSE s

RECURSIVE str_rstrip(_)
str_rstrip(s) ==
    IF s # <<>> /\ char_isspace(s[Len(s)]) THEN str_rstrip(SubSeq(s, 1, Len(s) - 1)) ELSE s

str_strip(s) == str_rstrip(str_lstrip(s))

str_startswith(s, prefix) ==
    Len(prefix) <= Len(s) /\ SubSeq(s, 1, Len(prefix)) = prefix

\* The first whitespace-free run of s (s has no leading whitespace).
RECURSIVE first_word(_)
first_word(s) ==
    IF s = <<>> \/ char_isspace(Head(s)) THEN <<>> ELSE <<Head(s)>> \o first_word(Tail(s))

\* str.split(): the maximal whitespace-free runs, in order.
RECURSIVE str_split(_)
str_split(s) ==
    LET t == str_lstrip(s)
    IN  IF t = <<>> THEN <<>>
        ELSE LET w == first_word(t)
             IN  <<w>> \o str_split(SubSeq(t, Len(w) + 1, Len(t)))

\* " ".join(parts)
RECURSIVE str_join(_)
str_join(parts) ==
    IF parts = <<>> THEN <<>>
    ELSE IF Len(parts) = 1 THEN parts[1]
    ELSE parts[1] \o <<" ">> \o str_join(Tail(parts))

\* re.sub(r"\s+", " ", s)
RECURSIVE collapse_whitespace(_)
collapse_whitespace(s) ==
    IF s = <<>> THEN <<>>
    ELSE IF char_isspace(Head(s)) THEN <<" ">> \o collapse_whitespace(str_lstrip(s))
    ELSE <<Head(s)>> \o collapse_whitespace(Tail(s))

\* str(n) for n >= 0
RECURSIVE int_to_str(_)
int_to_str(n) ==
    IF n < 10 THEN <<DIGITS[n + 1]>> ELSE int_to_str(n \div 10) \o <<DIGITS[(n % 10) + 1]>>

(***************************************************************************)
(* Module constants                                                        *)
(***************************************************************************)

\* The table with the prefix of "Bars" written in the singular.
SECTION_PATTERNS_singular_bar ==
    << [prefix |-> Chars("STARTING SHIFT"),      title |-> "Starting Shift"],
       [prefix |-> Chars("IMPORTANT LOCATIONS"), title |-> "Important Locations"],
       [prefix |-> Chars("BEPOZ/CASH HANDLING"), title |-> "Bepoz & Cash Handling"],
       [prefix |-> Chars("BAR"),                 title |-> "Bars"],
       [prefix |-> Chars("BAR KNOWLEDGE"),       title |-> "Bar Knowledge"],
       [prefix |-> Chars("FOOD OFFERINGS"),      title |-> "Food Offerings"],
       [prefix |-> Chars("FLOOR"),               title |-> "Floor"],
       [prefix |-> Chars("BOH CLEANING/DUTIES"), title |-> "BOH Cleaning & Duties"] >>

SECTION_PATTERNS ==
    << [prefix |-> Chars("STARTING SHIFT"),      title |-> "Starting Shift"],
       [prefix |-> Chars("IMPORTANT LOCATIONS"), title |-> "Important Locations"],
       [prefix |-> Chars("BEPOZ/CASH HANDLING"), title |-> "Bepoz & Cash Handling"],
       [prefix |-> Chars("BARS"),                title |-> "Bars"],
       [prefix |-> Chars("BAR KNOWLEDGE"),       title |-> "Bar Knowledge"],
       [prefix |-> Chars("FOOD OFFERINGS"),      title |-> "Food Offerings"],
       [prefix |-> Chars("FLOOR"),               title |-> "Floor"],
       [prefix |-> Chars("BOH CLEANING/DUTIES"), title |-> "BOH Cleaning & Duties"] >>

SKIP_TOKENS ==
    { Chars("TRAINER"), Chars("SUPERVISOR"), Chars("FROM"), Chars("OASIS"),
      Chars("SOVEREIGN"), Chars("S"), Chars("DISP"), Chars("NORTH"), Chars("SOUTH") }

CONTINUATION_SUFFIXES ==
    { Chars("and"), Chars("of"), Chars("the"), Chars("for"), Chars("to"), Chars("with"),
      Chars("on"), Chars("into"), Chars("between"), Chars("from"), Chars("all") }

\* The title None of is_section_header's (False, None).
None == "None"

(***************************************************************************)
(* extract_lines                                                           *)
(***************************************************************************)

\* re.match(r"^\d+\s*\|\s*P A G E$", upper)
RECURSIVE drop_digits(_)
drop_digits(s) == IF s # <<>> /\ char_isdigit(Head(s)) THEN drop_digits(Tail(s)) ELSE s

is_page_marker(upper) ==
    LET after_digits == drop_digits(upper)
        bar == str_lstrip(after_digits)
    IN  /\ Len(after_digits) < Len(upper)
        /\ bar # <<>>
        /\ Head(bar) = "|"
        /\ str_lstrip(Tail(bar)) = Chars("P A G E")

\* The tests under which the loop of extract_lines drops a non-empty line.
is_boilerplate(line) ==
    LET upper == str_upper(line)
    IN  \/ is_page_marker(upper)
        \/ str_startswith(upper, Chars("WELCOME TO PGR"))
        \/ str_startswith(upper, Chars("PGR COMPETENCY CHECKLIST"))
        \/ str_startswith(upper, Chars("NAME:"))
        \/ str_startswith(upper, Chars("DATE:"))
        \/ line = Chars("09/11/24 PP")

\* text_lines: text.splitlines() of the joined page texts.
RECURSIVE extract_lines(_)
extract_lines(text_lines) ==
    IF text_lines = <<>> THEN <<>>
    ELSE LET line == collapse_whitespace(str_strip(Head(text_lines)))
             rest == extract_lines(Tail(text_lines))
         IN  IF line = <<>> THEN <<line>> \o rest
             ELSE IF is_boilerplate(line) THEN rest
             ELSE <<line>> \o rest

(***************************************************************************)
(* is_section_header, normalise_item_text, should_continue                 *)
(***************************************************************************)

\* The loop with an exact comparison in place of startswith.
RECURSIVE header_scan_exact(_, _, _)
header_scan_exact(patterns, upper, k) ==
    IF k > Len(patterns) THEN None
    ELSE IF upper = patterns[k].prefix THEN patterns[k].title
    ELSE header_scan_exact(patterns, upper, k + 1)

\* The loop over SECTION_PATTERNS from entry k on; None stands for (False, None),
\* a title for (True, title).
RECURSIVE header_scan(_, _, _)
header_scan(patterns, upper, k) ==
    IF k > Len(patterns) THEN None
    ELSE IF str_startswith(upper, patterns[k].prefix) THEN patterns[k].title
    ELSE header_scan(patterns, upper, k + 1)

is_section_header(line) == header_scan(SECTION_PATTERNS, str_upper(line), 1)

\* re.sub(r"\s+NA$", "", text, flags=re.IGNORECASE)
strip_trailing_na(text) ==
    LET n == Len(text)
    IN  IF /\ n >= 3
           /\ char_upper(text[n]) = "A"
           /\ char_upper(text[n - 1]) = "N"
           /\ char_isspace(text[n - 2])
        THEN str_rstrip(SubSeq(text, 1, n - 2))
        ELSE text

\* re.sub(r"\s*<en dash>\s*", " - ", text)
RECURSIVE replace_en_dash(_)
replace_en_dash(text) ==
    IF text = <<>> THEN <<>>
    ELSE LET t == str_lstrip(text)
         IN  IF t # <<>> /\ Head(t) = EN_DASH
             THEN Chars(" - ") \o replace_en_dash(str_lstrip(Tail(t)))
             ELSE <<Head(text)>> \o replace_en_dash(Tail(text))

\* normalise_item_text without the re.sub of line 93.
normalise_item_text_keeps_dash(text) ==
    str_strip(collapse_whitespace(strip_trailing_na(str_strip(text))))

normalise_item_text(text) ==
    str_strip(collapse_whitespace(replace_en_dash(strip_trailing_na(str_strip(text)))))

\* should_continue with "fewer than 2 words" in the test of line 108.
should_continue_short_fragment(previous, current) ==
    IF previous = <<>> THEN FALSE
    ELSE IF current = <<>> THEN TRUE
    ELSE IF current[1] = "(" \/ char_islower(current[1]) THEN TRUE
    ELSE LET words == str_split(previous)
         IN  IF words # <<>> /\ str_lower(words[Len(words)]) \in CONTINUATION_SUFFIXES THEN TRUE
             ELSE IF /\ \E k \in 1..Len(words) : str_lower(words[k]) = Chars("between")
                     /\ Len(str_split(current)) < 2
                  THEN TRUE
             ELSE IF Len(str_split(current)) = 1 /\ str_upper(current) = current THEN TRUE
             ELSE FALSE

should_continue(previous, current) ==
    IF previous = <<>> THEN FALSE
    ELSE IF current = <<>> THEN TRUE
    ELSE IF current[1] = "(" \/ char_islower(current[1]) THEN TRUE
    ELSE LET words == str_split(previous)
         IN  IF words # <<>> /\ str_lower(words[Len(words)]) \in CONTINUATION_SUFFIXES THEN TRUE
             ELSE IF /\ \E k \in 1..Len(words) : str_lower(words[k]) = Chars("between")
                     /\ Len(str_split(current)) <= 2
                  THEN TRUE
             ELSE IF Len(str_split(current)) = 1 /\ str_upper(current) = current THEN TRUE
             ELSE FALSE

(***************************************************************************)
(* slugify                                                                 *)
(***************************************************************************)

\* One character of the class [a-z0-9].
slug_char(c) == char_islower(c) \/ char_isdigit(c)

RECURSIVE drop_non_slug(_)
drop_non_slug(s) == IF s # <<>> /\ ~slug_char(Head(s)) THEN drop_non_slug(Tail(s)) ELSE s

\* re.sub(r"[^a-z0-9]+", "-", s)
RECURSIVE replace_non_slug(_)
replace_non_slug(s) ==
    IF s = <<>> THEN <<>>
    ELSE IF slug_char(Head(s)) THEN <<Head(s)>> \o replace_non_slug(Tail(s))
    ELSE <<"-">> \o replace_non_slug(drop_non_slug(s))

\* str.strip("-")
RECURSIVE strip_dashes(_)
strip_dashes(s) ==
    IF s # <<>> /\ Head(s) = "-" THEN strip_dashes(Tail(s))
    ELSE IF s # <<>> /\ s[Len(s)] = "-" THEN strip_dashes(SubSeq(s, 1, Len(s) - 1))
    ELSE s

\* Lines 162-164: the base slug of a label.
slug_base(text) ==
    LET base == strip_dashes(replace_non_slug(str_lower(text)))
    IN  IF base = <<>> THEN Chars("item") ELSE base

\* seen[base] of a defaultdict(int).
seen_get(seen, base) == IF base \in DOMAIN seen THEN seen[base] ELSE 0

\* slugify with the suffix taken after the increment of line 166.
slugify_suffix_after_increment(text, seen) ==
    LET base == slug_base(text)
        count == seen_get(seen, base)
    IN  [id   |-> IF count # 0 THEN base \o <<"-">> \o int_to_str(count + 1) ELSE base,
         seen |-> [b \in DOMAIN seen \cup {base} |->
                      IF b = base THEN count + 1 ELSE seen[b]]]

\* slugify returns the id and leaves seen updated: [id, seen].
slugify(text, seen) ==
    LET base == slug_base(text)
        count == seen_get(seen, base)
    IN  [id   |-> IF count # 0 THEN base \o <<"-">> \o int_to_str(count) ELSE base,
         seen |-> [b \in DOMAIN seen \cup {base} |->
                      IF b = base THEN count + 1 ELSE seen[b]]]

(***************************************************************************)
(* JSON values of the legacy bundle file and of dataset.defaults           *)
(***************************************************************************)

\* Every JSON value is a record of one shape: t is its Python type, s the
\* text of a str, l the elements of a list, m the mapping of a dict.
JNull == [t |-> "NoneType", s |-> "", l |-> <<>>, m |-> <<>>]
JStr(x) == [t |-> "str", s |-> x, l |-> <<>>, m |-> <<>>]
JList(x) == [t |-> "list", s |-> "", l |-> x, m |-> <<>>]
JDict(f) == [t |-> "dict", s |-> "", l |-> <<>>, m |-> f]

\* isinstance(value, dict); the Python None is JNull.
is_dict(value) == value.t = "dict"

\* dict.get(key, default)
dict_get(d, key, default) == IF key \in DOMAIN d.m THEN d.m[key] ELSE default

\* An update that keeps the value of a key d already holds (setdefault).
dict_update_keeps_existing(d, other) ==
    JDict([k \in DOMAIN d.m \cup DOMAIN other.m |->
              IF k \in DOMAIN d.m THEN d.m[k] ELSE other.m[k]])

\* dict.update(other)
dict_update(d, other) ==
    JDict([k \in DOMAIN d.m \cup DOMAIN other.m |->
              IF k \in DOMAIN other.m THEN other.m[k] ELSE d.m[k]])

(***************************************************************************)
(* Inputs                                                                  *)
(***************************************************************************)

\* The legacy file: not looked at yet, absent, not JSON, or JSON text of a value.
LegacyUnread == [state |-> "unread", value |-> JNull]
LegacyAbsent == [state |-> "absent", value |-> JNull]
LegacyInvalid == [state |-> "invalid", value |-> JNull]
LegacyJson(value) == [state |-> "json", value |-> value]

\* The longest text read from the PDF, in lines.
MaxLines == 4

\* Lines of the PDF text, as text.splitlines() yields them: a sample that
\* holds every kind of line the converter tells apart.
MixedLines ==
    { Chars("FLOOR"), Chars(""), Chars("Count the till and"), Chars("  sign ~ off NA "),
      Chars("12 | P a g e"), Chars("north S") }

\* Lines around headings: repeated, suffixed, lower-case and near-miss headings.
HeadingLines ==
    { Chars("BARS"), Chars("bars 2"), Chars("BAR KNOWLEDGE"), Chars("FLOOR"),
      Chars("Set up the bar and"), Chars("BAR") }

\* Lines that follow a buffered line, one or more for each test of should_continue.
StitchLines ==
    { Chars("Set up the bar and"), Chars("stock the fridge"), Chars("(x)"),
      Chars("Go between A"), Chars("Ab Cd"), Chars("TILL NA"), Chars("12"),
      Chars("A ~B") }

\* Item lines, empty lines and skip-token lines.
FlushLines ==
    { Chars("Greet guests at the door"), Chars(""),
      Chars("Maintain cleanliness of common areas"), Chars("stock the fridge"),
      Chars("Set up the bar and"), Chars("(x)"), Chars("Trainer Supervisor") }

\* Labels that collide after slugging, in one section and across sections.
SlugLines ==
    { Chars("Ab"), Chars("Ab &1"), Chars("~"), Chars("BARS"), Chars(""),
      Chars("Bepoz Cash Handling - Till Reconciliation") }

\* Lines that normalise_item_text changes: trailing NA columns, an en dash and
\* a run of spaces.
NormalLines ==
    { Chars("x NA NA NA"), Chars("x NA NA"), Chars("NA"), Chars("A ~b  c na"), Chars("(y)"),
      Chars("") }

\* All texts of at most n lines over a set of lines.
Texts(corpus, n) == UNION { [1..k -> corpus] : k \in 0..n }

\* The texts of at most MaxLines lines that start with a heading line.
Under(heading, corpus) == { <<heading>> \o text : text \in Texts(corpus, MaxLines - 1) }

\* Contents of the legacy bundle file, when it exists.
LegacyDefaults ==
    { JDict([k \in {"mentor"} |-> JStr("Sam")]),
      JDict([k \in {"defaultStatus"} |-> JStr("Signed Off")]),
      JDict([k \in {"statusOptions", "shift"} |->
                IF k = "shift" THEN JStr("Night") ELSE JList(<<"Yes", "No">>)]) }

LegacyFiles ==
    {LegacyInvalid, LegacyJson(JList(<<>>)), LegacyJson(JDict(<<>>))}
    \cup { LegacyJson(JDict([k \in {"dataset"} |-> v])) :
               v \in {JNull, JList(<<>>), JDict(<<>>)} }
    \cup { LegacyJson(JDict([k \in {"dataset"} |-> JDict([j \in {"defaults"} |-> v])])) :
               v \in {JStr("x")} \cup LegacyDefaults }

(***************************************************************************)
(* State                                                                   *)
(***************************************************************************)

VARIABLES
    pdf,                \* the file at PDF_PATH: <<>> when absent, else <<its text lines>>
    pc,                 \* position of main
    lines,              \* result of extract_lines
    line_no,            \* loop position of parse_sections
    sections,           \* parse_sections: sections
    current_section,    \* parse_sections: index into sections, 0 for None
    buffer,             \* parse_sections: buffer
    section_no,         \* build_bundle: position of the outer loop
    items,              \* build_bundle: items of the section being built
    template_sections,  \* build_bundle: template_sections
    slug_counts,        \* build_bundle: slug_counts
    bundle,             \* main: <<>> before build_bundle returns, then <<bundle>>
    legacy,             \* the file at LEGACY_BUNDLE_PATH as main found it
    output,             \* the file at OUTPUT_PATH: <<>> while not written, then <<content>>
    error,              \* the exception that ended main, "" when there is none
    files,              \* workbook: the files at INPUT_PATHS
    args_input,         \* workbook main: args.input
    bundle_path,        \* workbook main: bundle_path, "" before it is set
    payload,            \* workbook main: <<>> before load_bundle returns, then <<payload>>
    loop_no,            \* workbook: position of the loop over people or sections
    matrix,             \* the data rows of the sheet Competency Matrix
    progress,           \* the data rows of the sheet Progress Summary
    board,              \* the data rows of the sheet Area Status Board
    parent_dir,         \* workbook main: output_path.parent.mkdir was called
    saved,              \* the file at args.output: <<>> while not saved, then <<workbook>>
    message             \* the message of the exception that ended the workbook main

workbook_vars == << files, args_input, bundle_path, payload, loop_no, matrix, progress, board,
                    parent_dir, saved, message >>

vars == << pdf, pc, lines, line_no, sections, current_section, buffer, section_no,
           items, template_sections, slug_counts, bundle, legacy, output, error,
           workbook_vars >>

parse_vars == << lines, line_no, sections, current_section, buffer >>
build_vars == << section_no, items, template_sections, slug_counts, bundle >>
file_vars == << pdf, legacy, output, error >>


(***************************************************************************)
(* parse_sections                                                          *)
(***************************************************************************)

\* flush_buffer with an early return that leaves the buffer alone while no
\* section is open.
flush_buffer_keeps_orphans(secs, cur, buf) ==
    IF cur = 0 \/ buf = <<>> THEN [sections |-> secs, buffer |-> buf]
    ELSE LET text == normalise_item_text(str_join(buf))
         IN  IF text # <<>>
             THEN [sections |-> [secs EXCEPT ![cur].items = Append(@, text)], buffer |-> <<>>]
             ELSE [sections |-> secs, buffer |-> <<>>]

\* flush_buffer without the append of line 127.
flush_buffer_discards(secs, cur, buf) == [sections |-> secs, buffer |-> <<>>]

\* flush_buffer, as a function of the variables it closes over: the sections
\* and the buffer it leaves.
flush_buffer(secs, cur, buf) ==
    IF cur = 0 \/ buf = <<>> THEN [sections |-> secs, buffer |-> <<>>]
    ELSE LET text == normalise_item_text(str_join(buf))
         IN  IF text # <<>>
             THEN [sections |-> [secs EXCEPT ![cur].items = Append(@, text)], buffer |-> <<>>]
             ELSE [sections |-> secs, buffer |-> <<>>]

\* The test of line 137 left out: every heading opens a section.
same_heading_never(secs, cur, title) == FALSE

\* Lines 137-142: the heading repeats the title of the current section.
same_heading(secs, cur, title) == cur # 0 /\ secs[cur].title = title

\* The skip test on the tokens as written, without upper().
is_skip_line_cased(text) ==
    LET words == str_split(text)
        tokens == { words[k] : k \in 1..Len(words) }
    IN  tokens # {} /\ tokens \subseteq SKIP_TOKENS

\* Lines 144-145: the line holds skip tokens only.
is_skip_line(text) ==
    LET words == str_split(str_upper(text))
        tokens == { words[k] : k \in 1..Len(words) }
    IN  tokens # {} /\ tokens \subseteq SKIP_TOKENS

\* Lines 131-156: the effect of one pass of the loop on (sections,
\* current_section, buffer).
parse_line(secs, cur, buf, text) ==
    LET flushed == flush_buffer(secs, cur, buf)
        title == is_section_header(text)
        cleaned == normalise_item_text(text)
    IN  IF text = <<>>
        THEN [sections |-> flushed.sections, current_section |-> cur, buffer |-> flushed.buffer]
        ELSE IF title # None
        THEN IF same_heading(flushed.sections, cur, title)
             THEN [sections |-> flushed.sections, current_section |-> cur,
                   buffer |-> flushed.buffer]
             ELSE [sections |-> Append(flushed.sections, [title |-> title, items |-> <<>>]),
                   current_section |-> Len(flushed.sections) + 1,
                   buffer |-> flushed.buffer]
        ELSE IF is_skip_line(text)
        THEN [sections |-> secs, current_section |-> cur, buffer |-> buf]
        ELSE IF cleaned = <<>>
        THEN [sections |-> flushed.sections, current_section |-> cur, buffer |-> flushed.buffer]
        ELSE IF buf # <<>> /\ should_continue(buf[Len(buf)], cleaned)
        THEN [sections |-> secs, current_section |-> cur, buffer |-> Append(buf, cleaned)]
        ELSE [sections |-> flushed.sections, current_section |-> cur,
              buffer |-> Append(flushed.buffer, cleaned)]

\* parse_sections as a function: the loop over text_lines from the state
\* (secs, cur, buf), then the flush and return of lines 157-158.
RECURSIVE parse_sections_from(_, _, _, _)
parse_sections_from(secs, cur, buf, text_lines) ==
    IF text_lines = <<>> THEN flush_buffer(secs, cur, buf).sections
    ELSE LET after == parse_line(secs, cur, buf, Head(text_lines))
         IN  parse_sections_from(after.sections, after.current_section, after.buffer,
                                 Tail(text_lines))

parse_sections(text_lines) == parse_sections_from(<<>>, 0, <<>>, text_lines)

\* Lines 130-156: one pass of the loop of parse_sections.
ParseLine ==
    /\ pc = "parse"
    /\ line_no <= Len(lines)
    /\ LET after == parse_line(sections, current_section, buffer, lines[line_no])
       IN  /\ sections' = after.sections
           /\ current_section' = after.current_section
           /\ buffer' = after.buffer
    /\ line_no' = line_no + 1
    /\ UNCHANGED << pc, lines, build_vars, file_vars, workbook_vars >>

\* Lines 157-158
ParseReturn ==
    /\ pc = "parse"
    /\ line_no > Len(lines)
    /\ sections' = flush_buffer(sections, current_section, buffer).sections
    /\ buffer' = flush_buffer(sections, current_section, buffer).buffer
    /\ pc' = "build"
    /\ UNCHANGED << lines, line_no, current_section, build_vars, file_vars, workbook_vars >>

(***************************************************************************)
(* build_bundle                                                            *)
(***************************************************************************)

\* Lines 189-220: the envelope around template_sections.
new_bundle(tsections) ==
    [ template |->
        [ title |-> "PGR Competency Checklist",
          version |-> "2024.11",
          statusOptions |-> <<"Not Started", "In Progress", "Complete">>,
          defaultStatus |-> "Not Started",
          sections |-> tsections ],
      dataset |->
        [ defaults |-> JDict(
              [ k \in {"role", "department", "mentor", "context", "statusOptions", "defaultStatus"} |->
                  CASE k = "role" -> JStr("Private Gaming Host")
                    [] k = "department" -> JStr("Private Gaming Rooms")
                    [] k = "mentor" -> JStr("To Be Confirmed")
                    [] k = "context" -> JDict([b \in {"brand"} |-> JStr("PGR")])
                    [] k = "statusOptions" -> JList(<<"Not Started", "In Progress", "Complete">>)
                    [] k = "defaultStatus" -> JStr("Not Started") ]),
          people |-> <<>> ] ]

Building == pc = "build" /\ section_no <= Len(sections)

\* Lines 177-183: one pass of the inner loop.
BuildItem ==
    /\ Building
    /\ Len(items) < Len(sections[section_no].items)
    /\ LET item_text == sections[section_no].items[Len(items) + 1]
           slug == slugify(item_text, slug_counts)
       IN  /\ items' = Append(items, [id |-> slug.id, label |-> item_text,
                                      defaultStatus |-> "Not Started"])
           /\ slug_counts' = slug.seen
    /\ UNCHANGED << pc, parse_vars, section_no, template_sections, bundle, file_vars, workbook_vars >>

\* Lines 184-188, and line 176 of the next pass.
BuildSection ==
    /\ Building
    /\ Len(items) = Len(sections[section_no].items)
    /\ template_sections' = Append(template_sections,
            [title |-> sections[section_no].title, description |-> "", items |-> items])
    /\ items' = <<>>
    /\ section_no' = section_no + 1
    /\ UNCHANGED << pc, parse_vars, slug_counts, bundle, file_vars, workbook_vars >>

\* Lines 189-221
BuildReturn ==
    /\ pc = "build"
    /\ section_no > Len(sections)
    /\ bundle' = <<new_bundle(template_sections)>>
    /\ pc' = "legacy"
    /\ UNCHANGED << parse_vars, section_no, items, template_sections, slug_counts, file_vars, workbook_vars >>

(***************************************************************************)
(* main                                                                    *)
(***************************************************************************)

\* Lines 225-226
MainPdfMissing ==
    /\ pc = "main"
    /\ pdf = <<>>
    /\ error' = "SystemExit"
    /\ pc' = "exit"
    /\ UNCHANGED << pdf, legacy, output, parse_vars, build_vars, workbook_vars >>

\* Lines 227-228: extract_lines, and the entry of parse_sections.
MainExtract ==
    /\ pc = "main"
    /\ pdf # <<>>
    /\ lines' = extract_lines(pdf[1])
    /\ pc' = "parse"
    /\ UNCHANGED << line_no, sections, current_section, buffer, build_vars, file_vars, workbook_vars >>

\* Lines 231-234: json.loads of the legacy text, {} on JSONDecodeError.
legacy_loads(file) == IF file.state = "json" THEN file.value ELSE JDict(<<>>)

\* Line 235, up to the .get of line 236.
legacy_dataset(file) ==
    IF is_dict(legacy_loads(file))
    THEN dict_get(legacy_loads(file), "dataset", JDict(<<>>))
    ELSE JDict(<<>>)

\* Line 236; only a dict has .get.
legacy_defaults(file) == dict_get(legacy_dataset(file), "defaults", JNull)

\* Lines 237-238
merge_defaults(b, file) ==
    IF is_dict(legacy_defaults(file))
    THEN [b EXCEPT !.dataset.defaults = dict_update(@, legacy_defaults(file))]
    ELSE b

\* Lines 230 and 239-240: the legacy file does not exist.
MainLegacyAbsent ==
    /\ pc = "legacy"
    /\ legacy' = LegacyAbsent
    /\ output' = bundle
    /\ pc' = "done"
    /\ UNCHANGED << pdf, error, parse_vars, build_vars, workbook_vars >>

\* Lines 230-240: the legacy file exists and line 236 finds a dict to call .get on.
MainLegacyMerge ==
    /\ pc = "legacy"
    /\ \E file \in LegacyFiles :
          /\ is_dict(legacy_dataset(file))
          /\ legacy' = file
          /\ bundle' = <<merge_defaults(bundle[1], file)>>
    /\ output' = bundle'
    /\ pc' = "done"
    /\ UNCHANGED << pdf, error, parse_vars, section_no, items, template_sections, slug_counts, workbook_vars >>

\* Lines 230-236: the legacy file exists and legacy_dataset is not a dict;
\* legacy_dataset.get raises AttributeError, which nothing catches.
MainLegacyError ==
    /\ pc = "legacy"
    /\ \E file \in LegacyFiles :
          /\ ~is_dict(legacy_dataset(file))
          /\ legacy' = file
    /\ error' = "AttributeError"
    /\ pc' = "exit"
    /\ UNCHANGED << pdf, output, parse_vars, build_vars, workbook_vars >>

(***************************************************************************)
(* Python float arithmetic of the completion percentage                    *)
(*                                                                         *)
(* A float x > 0 is its exponent and the 52 bits of its fraction field,    *)
(* written as FRAC_DIGITS digits of DIGIT_BITS bits, the most significant  *)
(* first: [exp |-> e, frac |-> <<d1, d2, d3, d4>>] is the number           *)
(* (1 + d1/DIGIT + d2/DIGIT^2 + d3/DIGIT^3 + d4/DIGIT^4) * 2^e.            *)
(***************************************************************************)

FRAC_DIGITS == 4
DIGIT_BITS == 13
DIGIT == 2^DIGIT_BITS

\* The digits of ds + n, after the carry out of the first digit.
RECURSIVE digits_plus(_, _)
digits_plus(ds, n) ==
    IF ds = <<>> THEN <<n>>
    ELSE digits_plus(SubSeq(ds, 1, Len(ds) - 1), (ds[Len(ds)] + n) \div DIGIT)
             \o <<(ds[Len(ds)] + n) % DIGIT>>

\* The digits of ds * n + carry, after the carry out of the first digit.
RECURSIVE digits_times(_, _, _)
digits_times(ds, n, carry) ==
    IF ds = <<>> THEN <<carry>>
    ELSE digits_times(SubSeq(ds, 1, Len(ds) - 1), n, (ds[Len(ds)] * n + carry) \div DIGIT)
             \o <<(ds[Len(ds)] * n + carry) % DIGIT>>

\* The long division of r by d (0 <= r < d): n digits of r / d after the
\* point, followed by the remainder.
RECURSIVE divide_digits(_, _, _)
divide_digits(r, d, n) ==
    IF n = 0 THEN <<r>>
    ELSE <<(r * DIGIT) \div d>> \o divide_digits((r * DIGIT) % d, d, n - 1)

\* The least j with a * 2^j >= b, from j on.
RECURSIVE shift_count(_, _, _)
shift_count(a, b, j) == IF a * 2^j >= b THEN j ELSE shift_count(a, b, j + 1)

\* n.bit_length() - 1 for n > 0, from g on.
RECURSIVE top_bit(_, _)
top_bit(n, g) == IF n < 2^(g + 1) THEN g ELSE top_bit(n, g + 1)

\* The float with the fraction digits ds and the exponent e, one unit in the
\* last place higher when up holds.
float_ulp_up(e, ds, up) ==
    IF up
    THEN [exp |-> e + digits_plus(ds, 1)[1], frac |-> Tail(digits_plus(ds, 1))]
    ELSE [exp |-> e, frac |-> ds]

\* Round half to even: the digits cut off are more than half a unit in the
\* last place kept, or half of one below an odd last digit.
rounds_up(twice_cut, unit, last) ==
    twice_cut > unit \/ (twice_cut = unit /\ last % 2 = 1)

\* The float a / b of two ints 0 < a <= b (true division).
float_div(a, b) ==
    LET j == shift_count(a, b, 0)
        q == divide_digits(a * 2^j - b, b, FRAC_DIGITS)
        ds == SubSeq(q, 1, FRAC_DIGITS)
    IN  float_ulp_up(0 - j, ds, rounds_up(2 * q[FRAC_DIGITS + 1], b, ds[FRAC_DIGITS]))

\* The float x * n of a float x and an int 0 < n < DIGIT, which a float holds
\* exactly.
float_times(x, n) ==
    LET p == digits_times(x.frac, n, 0)
        g == top_bit(n + p[1], 0)
        all == <<n + p[1] - 2^g>> \o Tail(p)
        ds == [k \in 1..FRAC_DIGITS |->
                  (all[k] % 2^g) * 2^(DIGIT_BITS - g) + all[k + 1] \div 2^g]
    IN  float_ulp_up(x.exp + g, ds,
                     rounds_up(2 * (all[FRAC_DIGITS + 1] % 2^g), 2^g, ds[FRAC_DIGITS]))

\* round(x) of a float 0 < x < DIGIT: the nearest int, the even one of two
\* equally near.
float_round(x) ==
    LET lower == \E k \in 2..FRAC_DIGITS : x.frac[k] # 0
        whole == 2^x.exp + x.frac[1] \div 2^(DIGIT_BITS - x.exp)
        rest == x.frac[1] % 2^(DIGIT_BITS - x.exp)
        half == 2^(DIGIT_BITS - 1 - x.exp)
    IN  IF x.exp < 0 - 1 THEN 0
        ELSE IF x.exp = 0 - 1 THEN (IF x.frac[1] # 0 \/ lower THEN 1 ELSE 0)
        ELSE IF rest > half \/ (rest = half /\ lower) THEN whole + 1
        ELSE IF rest = half /\ whole % 2 = 1 THEN whole + 1
        ELSE whole

\* round((completed / total) * 100) if total else 0, with (0 / total) * 100
\* the float 0.0.
completion_percent(completed, total) ==
    IF total = 0 \/ completed = 0 THEN 0
    ELSE float_round(float_times(float_div(completed, total), 100))

(***************************************************************************)
(* generate_competency_workbook.py: the bundle it reads                    *)
(***************************************************************************)

DEFAULT_INPUT_PATH == "data/pgr_competency_checklist_bundle.json"
LEGACY_TEXT_PATH == "data/(5) PGR Competency Checklist.txt"
\* A path given with --input.
OTHER_INPUT_PATH == "archive/bundle.json"
DEFAULT_OUTPUT_PATH == "data/PGR_Competency_Checklist.xlsx"

INPUT_PATHS == {DEFAULT_INPUT_PATH, LEGACY_TEXT_PATH, OTHER_INPUT_PATH}

\* The keys of STATUS_COLOUR_PRESETS, in order.
STATUS_COLOUR_PRESETS == <<"Not Started", "In Progress", "Complete">>

\* A file: absent, no JSON text, or the JSON text of a value.
AbsentFile == [state |-> "absent", value |-> JNull]
InvalidFile == [state |-> "invalid", value |-> JNull]
JsonFile(value) == [state |-> "json", value |-> value]

\* Values a dict.get(key) without the key, or with an empty str, yields: both
\* are false in "if status" and in "x or y".
NoStatus == ""

\* An item of a template section.
Item(n, default) ==
    [id |-> int_to_str(n), label |-> <<"#">> \o int_to_str(n), defaultStatus |-> default]

\* A dataset is [updated, defaults, people]: updated is <<>> without the key
\* and <<text>> with it.  A person of dataset.people: competencies maps item
\* ids to the recorded status.
Person(name, competencies) == [name |-> name, competencies |-> competencies]

\* The competencies of a person whose items 1..n have one recorded status.
FirstItems(n, status) == [id \in { int_to_str(k) : k \in 1..n } |-> status]

(***************************************************************************)
(* load_bundle                                                             *)
(***************************************************************************)

\* Lines 732 and 735: sorted({"dataset", "template"} - payload.keys()) of a dict
missing_keys(value) ==
    SelectSeq(<<"dataset", "template">>, LAMBDA key : key \notin DOMAIN value.m)

\* The message of an exception, by its parts: the path and the keys it names.
Message(path, keys) == [path |-> path, keys |-> keys]
NoMessage == Message("", <<>>)

(***************************************************************************)
(* build_matrix_sheet                                                      *)
(***************************************************************************)

\* Line 97
status_options_of(template) ==
    IF template.statusOptions # <<>> THEN template.statusOptions ELSE STATUS_COLOUR_PRESETS

\* Lines 310-313 and 599-602
default_status_of(dataset, status_options) ==
    IF dataset.defaults.defaultStatus # NoStatus THEN dataset.defaults.defaultStatus
    ELSE IF status_options # <<>> THEN status_options[1]
    ELSE "Not Started"

\* Lines 325-326, 489-490 and 614-615: person.get("competencies", {})
\* .get(item["id"], {}).get("status")
recorded_status(person, item) ==
    IF item.id \in DOMAIN person.competencies THEN person.competencies[item.id] ELSE NoStatus

\* The status of a row with the default of the dataset put before that of the item.
shown_status_dataset_first(person, item, default_status) ==
    IF recorded_status(person, item) # NoStatus THEN recorded_status(person, item)
    ELSE IF default_status # NoStatus THEN default_status
    ELSE item.defaultStatus

\* Lines 326-328 and 615-617: the status a row shows.
shown_status(person, item, default_status) ==
    IF recorded_status(person, item) # NoStatus THEN recorded_status(person, item)
    ELSE IF item.defaultStatus # NoStatus THEN item.defaultStatus
    ELSE default_status

\* Lines 332-351: the cells of a row that depend on the bundle's people and items.
matrix_row(person, section, item, default_status) ==
    [ name |-> person.name, area |-> section.title, competency |-> item.label,
      status |-> shown_status(person, item, default_status) ]

\* Lines 324-373: the rows of one section, from item k on.
RECURSIVE section_rows(_, _, _, _)
section_rows(person, section, k, default_status) ==
    IF k > Len(section.items) THEN <<>>
    ELSE <<matrix_row(person, section, section.items[k], default_status)>>
             \o section_rows(person, section, k + 1, default_status)

\* The loop of line 318 stopped after the first section.
person_rows_first_section(person, sections_left, default_status) ==
    IF sections_left = <<>> THEN <<>>
    ELSE section_rows(person, Head(sections_left), 1, default_status)

\* Lines 318-373: the rows of one person.
RECURSIVE person_rows(_, _, _)
person_rows(person, sections_left, default_status) ==
    IF sections_left = <<>> THEN <<>>
    ELSE section_rows(person, Head(sections_left), 1, default_status)
             \o person_rows(person, Tail(sections_left), default_status)

(***************************************************************************)
(* build_progress_sheet                                                    *)
(***************************************************************************)

\* A Counter, as the sequence of the keys it was incremented with; Counter()
\* is <<>>.  counter.get(key, 0): the number of increments with the key.
counter_get(counter, key) == Len(SelectSeq(counter, LAMBDA k : k = key))

\* sum(counter.values())
counter_sum(counter) == Len(counter)

\* Lines 488-494: completed after the loop over the items from item k on.
RECURSIVE count_completed(_, _, _)
count_completed(person, these, k) ==
    IF k > Len(these) THEN 0
    ELSE (IF recorded_status(person, these[k]) = "Complete" THEN 1 ELSE 0)
             + count_completed(person, these, k + 1)

\* Lines 488-492: the increments of status_totals in the loop over the items
\* from item k on.
RECURSIVE tally_recorded(_, _, _)
tally_recorded(person, these, k) ==
    IF k > Len(these) THEN <<>>
    ELSE IF recorded_status(person, these[k]) # NoStatus
    THEN <<recorded_status(person, these[k])>> \o tally_recorded(person, these, k + 1)
    ELSE tally_recorded(person, these, k + 1)

\* Line 497: f"{completed} / {len(items)}"
ratio_cell(completed, total) == int_to_str(completed) \o Chars(" / ") \o int_to_str(total)

\* Lines 505 and 635: f"{overall_percent}%"
percent_cell(percent) == int_to_str(percent) \o <<"%">>

\* Lines 485-497: the section cells of a person's row.
section_cells(person, these_sections) ==
    [ s \in 1..Len(these_sections) |->
        ratio_cell(count_completed(person, these_sections[s].items, 1),
                   Len(these_sections[s].items)) ]

\* Line 496: total_completed after the loop over the sections.
RECURSIVE sum_completed(_, _)
sum_completed(person, sections_left) ==
    IF sections_left = <<>> THEN 0
    ELSE count_completed(person, Head(sections_left).items, 1)
             + sum_completed(person, Tail(sections_left))

\* Line 495: total_items after the loop over the sections.
RECURSIVE sum_items(_)
sum_items(sections_left) ==
    IF sections_left = <<>> THEN 0
    ELSE Len(Head(sections_left).items) + sum_items(Tail(sections_left))

\* Lines 484-492: status_totals after the loop over the sections.
RECURSIVE tally_sections(_, _)
tally_sections(person, sections_left) ==
    IF sections_left = <<>> THEN <<>>
    ELSE tally_recorded(person, Head(sections_left).items, 1)
             \o tally_sections(person, Tail(sections_left))

\* Lines 481-506: the row of one person.
progress_row(person, template) ==
    LET status_totals == tally_sections(person, template.sections)
    IN  [ name |-> person.name,
          cells |-> section_cells(person, template.sections),
          not_started |-> counter_get(status_totals, "Not Started"),
          in_progress |-> counter_get(status_totals, "In Progress"),
          complete |-> counter_get(status_totals, "Complete"),
          percent |-> percent_cell(completion_percent(sum_completed(person, template.sections),
                                                      sum_items(template.sections))) ]

(***************************************************************************)
(* build_area_status_board                                                 *)
(***************************************************************************)

\* Lines 613-618: the increments of counts in the loop over the items of a
\* section from item k on.
RECURSIVE tally_shown(_, _, _, _)
tally_shown(person, these, k, default_status) ==
    IF k > Len(these) THEN <<>>
    ELSE <<shown_status(person, these[k], default_status)>>
             \o tally_shown(person, these, k + 1, default_status)

\* Lines 610-618: counts after the loop over the people.
RECURSIVE tally_people(_, _, _)
tally_people(people_left, these, default_status) ==
    IF people_left = <<>> THEN <<>>
    ELSE tally_shown(Head(people_left), these, 1, default_status)
             \o tally_people(Tail(people_left), these, default_status)

\* Lines 605-638: the row of one section.
board_row(section, dataset, default_status) ==
    LET counts == tally_people(dataset.people, section.items, default_status)
        total == counter_sum(counts)
        complete == counter_get(counts, "Complete")
        not_started == counter_get(counts, "Not Started")
        in_progress == counter_get(counts, "In Progress")
    IN  [ title |-> section.title, total |-> total, not_started |-> not_started,
          in_progress |-> in_progress, complete |-> complete,
          other |-> total - (complete + not_started + in_progress),
          percent |-> percent_cell(completion_percent(complete, total)) ]

(***************************************************************************)
(* Inputs of generate_competency_workbook.py                               *)
(***************************************************************************)

\* The longest dataset.people, and the longest section of a template.
MaxPeople == 2
BigSection == 40

FloorTemplate ==
    [ statusOptions |-> STATUS_COLOUR_PRESETS,
      sections |-> << [title |-> "Floor", items |-> [k \in 1..4 |-> Item(k, "Not Started")]] >> ]

\* Sections with an item without defaultStatus, an item id used twice, and no
\* items; no statusOptions.
MixedTemplate ==
    [ statusOptions |-> <<>>,
      sections |->
        << [title |-> "Bars",
            items |-> <<Item(1, NoStatus), Item(2, "In Progress"), Item(2, "Not Started")>>],
           [title |-> "Floor", items |-> <<Item(3, "Not Started")>>],
           [title |-> "Cellar", items |-> <<>>] >> ]

EmptyTemplate == [statusOptions |-> <<"Yes", "No">>, sections |-> <<>>]

BigTemplate ==
    [ statusOptions |-> STATUS_COLOUR_PRESETS,
      sections |->
        << [title |-> "Floor", items |-> [k \in 1..BigSection |-> Item(k, "Not Started")]] >> ]

Templates == {FloorTemplate, MixedTemplate, EmptyTemplate, BigTemplate}

\* People with no record, with records of every kind of status (an empty one
\* and one outside the options too), and with a record of an unknown item.
PeoplePool ==
    { Person("Ann", <<>>),
      Person("Bo", FirstItems(3, "Complete")),
      Person("Cy", [id \in { int_to_str(k) : k \in 1..4 } |->
                       CASE id = int_to_str(1) -> "Complete"
                         [] id = int_to_str(2) -> NoStatus
                         [] id = int_to_str(3) -> "Signed Off"
                         [] OTHER -> "In Progress"]),
      Person("Di", [id \in {int_to_str(1), int_to_str(9)} |->
                       IF id = int_to_str(1) THEN "Not Started" ELSE "Complete"]),
      Person("Ed", FirstItems(23, "Complete")),
      Person("Flo", FirstItems(4, "Complete")) }

Datasets ==
    { [updated |-> <<"2024-11-09">>, defaults |-> [defaultStatus |-> d], people |-> people] :
          d \in {NoStatus, "In Progress"},
          people \in UNION { [1..n -> PeoplePool] : n \in 0..MaxPeople } }

Bundle(dataset, template) ==
    JDict([key \in {"dataset", "template"} |-> IF key = "dataset" THEN dataset ELSE template])

SampleDataset ==
    [ updated |-> <<"2024-11-09">>, defaults |-> [defaultStatus |-> NoStatus],
      people |-> <<Person("Bo", FirstItems(3, "Complete"))>> ]

SampleBundle == Bundle(SampleDataset, FloorTemplate)

\* A bundle whose dataset has no key "updated".
UndatedBundle == Bundle([SampleDataset EXCEPT !.updated = <<>>], FloorTemplate)

BundleFiles ==
    { JsonFile(Bundle(dataset, template)) : dataset \in Datasets, template \in Templates }
    \cup {JsonFile(UndatedBundle)}

\* Files load_bundle rejects: absent, no JSON, JSON that is no object, and
\* objects without one or both of the keys.
BrokenFiles ==
    { AbsentFile, InvalidFile, JsonFile(JNull), JsonFile(JList(<<>>)), JsonFile(JDict(<<>>)),
      JsonFile(JDict([key \in {"dataset"} |-> SampleDataset])),
      JsonFile(JDict([key \in {"template", "bundle"} |->
                         IF key = "template" THEN FloorTemplate ELSE JStr("PGR")])) }

Files(default, legacy_text, other) ==
    [ path \in INPUT_PATHS |->
        CASE path = DEFAULT_INPUT_PATH -> default
          [] path = LEGACY_TEXT_PATH -> legacy_text
          [] OTHER -> other ]

\* The command line and the files of a run: --input given or left to its default.
WorkbookRuns ==
    { [input |-> OTHER_INPUT_PATH, fs |-> Files(AbsentFile, legacy_text, file)] :
          file \in BundleFiles \cup BrokenFiles, legacy_text \in {AbsentFile} }
    \cup { [input |-> OTHER_INPUT_PATH, fs |-> Files(AbsentFile, JsonFile(SampleBundle), AbsentFile)] }
    \cup { [input |-> DEFAULT_INPUT_PATH, fs |-> Files(file, legacy_text, AbsentFile)] :
               file \in {AbsentFile, JsonFile(SampleBundle), JsonFile(JDict(<<>>))},
               legacy_text \in {AbsentFile, InvalidFile, JsonFile(SampleBundle)} }

(***************************************************************************)
(* main of generate_competency_workbook.py                                 *)
(***************************************************************************)

\* Lines 745-748: the path load_bundle is called with.
resolved_path(fs, input) ==
    IF /\ fs[input].state = "absent"
       /\ input = DEFAULT_INPUT_PATH
       /\ fs[LEGACY_TEXT_PATH].state # "absent"
    THEN LEGACY_TEXT_PATH
    ELSE input

\* Lines 742-748, with the output directory made before the bundle is loaded.
WorkbookArgs_mkdir_first ==
    /\ pc = "workbook"
    /\ bundle_path' = resolved_path(files, args_input)
    /\ parent_dir' = TRUE
    /\ pc' = "load"
    /\ UNCHANGED << files, args_input, payload, loop_no, matrix, progress, board, saved,
                    message, error, pdf, legacy, output, parse_vars, build_vars >>

\* Lines 742-748
WorkbookArgs ==
    /\ pc = "workbook"
    /\ bundle_path' = resolved_path(files, args_input)
    /\ pc' = "load"
    /\ UNCHANGED << files, args_input, payload, loop_no, matrix, progress, board, parent_dir,
                    saved, message, error, pdf, legacy, output, parse_vars, build_vars >>

\* An exception load_bundle raises and nothing catches.
LoadBundleRaises(exception, msg) ==
    /\ error' = exception
    /\ message' = msg
    /\ pc' = "exit"
    /\ UNCHANGED << files, args_input, bundle_path, payload, loop_no, matrix, progress, board,
                    parent_dir, saved, pdf, legacy, output, parse_vars, build_vars >>

\* Lines 723-724
LoadBundleMissing ==
    /\ pc = "load"
    /\ files[bundle_path].state = "absent"
    /\ LoadBundleRaises("FileNotFoundError", Message(bundle_path, <<>>))

\* Lines 726-730
LoadBundleInvalid ==
    /\ pc = "load"
    /\ files[bundle_path].state = "invalid"
    /\ LoadBundleRaises("ValueError", Message(bundle_path, <<>>))

\* Line 732: payload.keys() of a payload that is no dict; the message of the
\* AttributeError names the type and the attribute only.
LoadBundleNoKeys ==
    /\ pc = "load"
    /\ files[bundle_path].state = "json"
    /\ ~is_dict(files[bundle_path].value)
    /\ LoadBundleRaises("AttributeError", NoMessage)

\* Lines 732-736
LoadBundleMissingKeys ==
    /\ pc = "load"
    /\ files[bundle_path].state = "json"
    /\ is_dict(files[bundle_path].value)
    /\ missing_keys(files[bundle_path].value) # <<>>
    /\ LoadBundleRaises("KeyError",
                        Message(bundle_path, missing_keys(files[bundle_path].value)))

\* Lines 738 and 750-753
LoadBundleReturn ==
    /\ pc = "load"
    /\ files[bundle_path].state = "json"
    /\ is_dict(files[bundle_path].value)
    /\ missing_keys(files[bundle_path].value) = <<>>
    /\ payload' = <<files[bundle_path].value>>
    /\ pc' = "overview"
    /\ UNCHANGED << files, args_input, bundle_path, loop_no, matrix, progress, board,
                    parent_dir, saved, message, error, pdf, legacy, output, parse_vars,
                    build_vars >>

dataset_of(loaded) == loaded[1].m["dataset"]
template_of(loaded) == loaded[1].m["template"]

\* Lines 92-102 and 120-128: dataset["updated"] of a dataset without the key.
OverviewRaises ==
    /\ pc = "overview"
    /\ dataset_of(payload).updated = <<>>
    /\ error' = "KeyError"
    /\ message' = Message("", <<"updated">>)
    /\ pc' = "exit"
    /\ UNCHANGED << files, args_input, bundle_path, payload, loop_no, matrix, progress, board,
                    parent_dir, saved, pdf, legacy, output, parse_vars, build_vars >>

\* Lines 92-102, build_overview_sheet, and lines 281-315 of build_matrix_sheet.
OverviewSheet ==
    /\ pc = "overview"
    /\ dataset_of(payload).updated # <<>>
    /\ pc' = "matrix"
    /\ UNCHANGED << files, args_input, bundle_path, payload, loop_no, matrix, progress, board,
                    parent_dir, saved, message, error, pdf, legacy, output, parse_vars,
                    build_vars >>

\* Lines 316-373: one pass of the loop over the people.
MatrixPerson ==
    /\ pc = "matrix"
    /\ loop_no <= Len(dataset_of(payload).people)
    /\ matrix' = matrix \o person_rows(
            dataset_of(payload).people[loop_no], template_of(payload).sections,
            default_status_of(dataset_of(payload), status_options_of(template_of(payload))))
    /\ loop_no' = loop_no + 1
    /\ UNCHANGED << files, args_input, bundle_path, payload, progress, board, parent_dir,
                    saved, message, error, pc, pdf, legacy, output, parse_vars, build_vars >>

\* Lines 375-450, and lines 456-479 of build_progress_sheet.
MatrixReturn ==
    /\ pc = "matrix"
    /\ loop_no > Len(dataset_of(payload).people)
    /\ pc' = "progress"
    /\ loop_no' = 1
    /\ UNCHANGED << files, args_input, bundle_path, payload, matrix, progress, board,
                    parent_dir, saved, message, error, pdf, legacy, output, parse_vars,
                    build_vars >>

\* Lines 480-507: one pass of the loop over the people.
ProgressPerson ==
    /\ pc = "progress"
    /\ loop_no <= Len(dataset_of(payload).people)
    /\ progress' = Append(progress,
            progress_row(dataset_of(payload).people[loop_no], template_of(payload)))
    /\ loop_no' = loop_no + 1
    /\ UNCHANGED << files, args_input, bundle_path, payload, matrix, board, parent_dir,
                    saved, message, error, pc, pdf, legacy, output, parse_vars, build_vars >>

\* Lines 509-563, and lines 573-604 of build_area_status_board.
ProgressReturn ==
    /\ pc = "progress"
    /\ loop_no > Len(dataset_of(payload).people)
    /\ pc' = "board"
    /\ loop_no' = 1
    /\ UNCHANGED << files, args_input, bundle_path, payload, matrix, progress, board,
                    parent_dir, saved, message, error, pdf, legacy, output, parse_vars,
                    build_vars >>

\* Lines 605-654: one pass of the loop over the sections.
BoardSection ==
    /\ pc = "board"
    /\ loop_no <= Len(template_of(payload).sections)
    /\ board' = Append(board,
            board_row(template_of(payload).sections[loop_no], dataset_of(payload),
                default_status_of(dataset_of(payload), status_options_of(template_of(payload)))))
    /\ loop_no' = loop_no + 1
    /\ UNCHANGED << files, args_input, bundle_path, payload, matrix, progress, parent_dir,
                    saved, message, error, pc, pdf, legacy, output, parse_vars, build_vars >>

\* Lines 656-691 and 109
BoardReturn ==
    /\ pc = "board"
    /\ loop_no > Len(template_of(payload).sections)
    /\ pc' = "save"
    /\ UNCHANGED << files, args_input, bundle_path, payload, loop_no, matrix, progress, board,
                    parent_dir, saved, message, error, pdf, legacy, output, parse_vars,
                    build_vars >>

\* Lines 757-760: the sheets of the workbook, saved below its parent directory.
WorkbookSave ==
    /\ pc = "save"
    /\ parent_dir' = TRUE
    /\ saved' = << [matrix |-> matrix, progress |-> progress, board |-> board] >>
    /\ pc' = "done"
    /\ UNCHANGED << files, args_input, bundle_path, payload, loop_no, matrix, progress, board,
                    message, error, pdf, legacy, output, parse_vars, build_vars >>

(***************************************************************************)
(* Specifications                                                          *)
(***************************************************************************)

InitWith(texts) ==
    /\ pdf \in {<<>>} \cup { <<text>> : text \in texts }
    /\ pc = "main"
    /\ lines = <<>>
    /\ line_no = 1
    /\ sections = <<>>
    /\ current_section = 0
    /\ buffer = <<>>
    /\ section_no = 1
    /\ items = <<>>
    /\ template_sections = <<>>
    /\ slug_counts = <<>>
    /\ bundle = <<>>
    /\ legacy = LegacyUnread
    /\ output = <<>>
    /\ error = ""
    /\ files = Files(AbsentFile, AbsentFile, AbsentFile)
    /\ args_input = DEFAULT_INPUT_PATH
    /\ bundle_path = ""
    /\ payload = <<>>
    /\ loop_no = 1
    /\ matrix = <<>>
    /\ progress = <<>>
    /\ board = <<>>
    /\ parent_dir = FALSE
    /\ saved = <<>>
    /\ message = NoMessage

Next ==
    \/ MainPdfMissing
    \/ MainExtract
    \/ ParseLine
    \/ ParseReturn
    \/ BuildItem
    \/ BuildSection
    \/ BuildReturn
    \/ MainLegacyAbsent
    \/ MainLegacyMerge
    \/ MainLegacyError

Init == InitWith(Texts(MixedLines, MaxLines))
Spec == Init /\ [][Next]_vars

InitHeadings == InitWith(Texts(HeadingLines, MaxLines))
SpecHeadings == InitHeadings /\ [][Next]_vars

InitStitch == InitWith(Under(Chars("BARS"), StitchLines))
SpecStitch == InitStitch /\ [][Next]_vars

InitFlush == InitWith(Under(Chars("FLOOR"), FlushLines))
SpecFlush == InitFlush /\ [][Next]_vars

InitSlug == InitWith(Under(Chars("FLOOR"), SlugLines))
SpecSlug == InitSlug /\ [][Next]_vars

InitNormal == InitWith(Under(Chars("FLOOR"), NormalLines))
SpecNormal == InitNormal /\ [][Next]_vars

\* A run of generate_competency_workbook.py.
InitWorkbook ==
    /\ \E run \in WorkbookRuns :
          /\ files = run.fs
          /\ args_input = run.input
    /\ pc = "workbook"
    /\ bundle_path = ""
    /\ payload = <<>>
    /\ loop_no = 1
    /\ matrix = <<>>
    /\ progress = <<>>
    /\ board = <<>>
    /\ parent_dir = FALSE
    /\ saved = <<>>
    /\ message = NoMessage
    /\ error = ""
    /\ pdf = <<>>
    /\ lines = <<>>
    /\ line_no = 1
    /\ sections = <<>>
    /\ current_section = 0
    /\ buffer = <<>>
    /\ section_no = 1
    /\ items = <<>>
    /\ template_sections = <<>>
    /\ slug_counts = <<>>
    /\ bundle = <<>>
    /\ legacy = LegacyUnread
    /\ output = <<>>

NextWorkbook ==
    \/ WorkbookArgs
    \/ LoadBundleMissing
    \/ LoadBundleInvalid
    \/ LoadBundleNoKeys
    \/ LoadBundleMissingKeys
    \/ LoadBundleReturn
    \/ OverviewRaises
    \/ OverviewSheet
    \/ MatrixPerson
    \/ MatrixReturn
    \/ ProgressPerson
    \/ ProgressReturn
    \/ BoardSection
    \/ BoardReturn
    \/ WorkbookSave

SpecWorkbook == InitWorkbook /\ [][NextWorkbook]_vars

\* A run of either script.
InitEither == Init \/ InitWorkbook
NextEither == Next \/ NextWorkbook
SpecEither == InitEither /\ [][NextEither]_vars

(***************************************************************************)
(* Properties of the bundle builder                                        *)
(***************************************************************************)

\* The items of a list of sections, in document order.
RECURSIVE concat_items(_)
concat_items(secs) ==
    IF secs = <<>> THEN <<>> ELSE Head(secs).items \o concat_items(Tail(secs))

\* The items build_bundle has produced so far, and the labels it reads.
built_items == concat_items(template_sections) \o items
all_labels == concat_items(sections)

\* C1: the ids of all items across all sections of the template are pairwise
\* distinct, whatever the labels (also labels that end in a numeric suffix).
C1_UniqueIds ==
    \A a, b \in 1..Len(built_items) :
        a # b => built_items[a].id # built_items[b].id

\* The maximal runs of characters a-z, 0-9 of a text.
RECURSIVE alnum_runs(_)
alnum_runs(s) ==
    LET t == drop_non_slug(s)
    IN  IF t = <<>> THEN <<>>
        ELSE LET n == CHOOSE n \in 1..Len(t) :
                          /\ \A k \in 1..n : slug_char(t[k])
                          /\ n = Len(t) \/ ~slug_char(t[n + 1])
             IN  <<SubSeq(t, 1, n)>> \o alnum_runs(SubSeq(t, n + 1, Len(t)))

RECURSIVE join_dashed(_)
join_dashed(runs) ==
    IF Len(runs) = 1 THEN runs[1] ELSE runs[1] \o <<"-">> \o join_dashed(Tail(runs))

\* The base of a label as C9 words it: the runs of a-z, 0-9 of the lowercased
\* label with one "-" between them, "item" when there is none.
C9_Base(label) ==
    LET runs == alnum_runs(str_lower(label))
    IN  IF runs = <<>> THEN Chars("item") ELSE join_dashed(runs)

\* The id C9 gives the k-th label: the base, or base-n after n earlier labels
\* of the same base.
C9_Id(labels, k) ==
    LET base == C9_Base(labels[k])
        n == Cardinality({ j \in 1..(k - 1) : C9_Base(labels[j]) = base })
    IN  IF n = 0 THEN base ELSE base \o <<"-">> \o int_to_str(n)

\* C9: every item keeps its label and gets the id that its label and the
\* labels before it (in document order, across sections) determine: the base
\* for the first item of a base, base-n for the n-th later one.  The id is a
\* function of the labels alone, so a second run gives the same ids.
C9_SlugIds ==
    /\ Len(built_items) <= Len(all_labels)
    /\ \A k \in 1..Len(built_items) :
          /\ built_items[k].label = all_labels[k]
          /\ built_items[k].id = C9_Id(all_labels, k)

\* Two sections hold the same label: the second gets the suffix -1.
C9_Witness ==
    /\ pc = "done"
    /\ Len(template_sections) = 2
    /\ Len(built_items) = 2
    /\ built_items[1].id = Chars("ab")
    /\ built_items[2].id = Chars("ab-1")
    /\ template_sections[2].items # <<>>

(***************************************************************************)
(* Properties of heading detection                                         *)
(***************************************************************************)

\* parse_sections is about to process lines[line_no].
AtLine == pc = "parse" /\ line_no <= Len(lines)

\* The table entries whose prefix starts the uppercased text.
Matches(text) ==
    LET upper == str_upper(text)
    IN  { k \in 1..Len(SECTION_PATTERNS) : str_startswith(upper, SECTION_PATTERNS[k].prefix) }

Least(S) == CHOOSE m \in S : \A n \in S : m <= n

\* C2 as stated: no two sections of the result have the same title.
C2_NoDuplicateTitles ==
    \A a, b \in 1..Len(sections) : a # b => sections[a].title # sections[b].title

\* One step of the parser at a line: it changes the items of the section that
\* was current before it and of no other; a heading whose title is the title
\* of the current section keeps that section current and creates none; any
\* other heading appends a new empty section and makes it current.
C2_HeadingStep ==
    AtLine =>
        /\ \A k \in 1..Len(sections) :
              k # current_section => sections'[k] = sections[k]
        /\ Matches(lines[line_no]) # {} /\ lines[line_no] # <<>> =>
              LET title == SECTION_PATTERNS[Least(Matches(lines[line_no]))].title
              IN  IF current_section # 0 /\ sections[current_section].title = title
                  THEN /\ Len(sections') = Len(sections)
                       /\ current_section' = current_section
                  ELSE /\ Len(sections') = Len(sections) + 1
                       /\ current_section' = Len(sections')
                       /\ sections'[current_section'] = [title |-> title, items |-> <<>>]

\* The current section is the last one, and neighbours differ in title.
C2_Adjacent ==
    /\ current_section = Len(sections)
    /\ \A a \in 1..(Len(sections) - 1) : sections[a].title # sections[a + 1].title

\* C2 (amended): a heading that repeats the title of the current section
\* creates no section and the items after it go to that section, so no two
\* consecutive sections have the same title; a heading that repeats the title
\* of an earlier section that is no longer current opens a new section.
C2_RepeatedHeading == [](C2_Adjacent) /\ [][C2_HeadingStep]_vars

\* "bars 2" repeats the heading "BARS": one section holds the items around it.
C2_Witness ==
    /\ pc = "build"
    /\ lines = << Chars("BARS"), Chars("Set up the bar and"), Chars("bars 2"),
                  Chars("Set up the bar and") >>
    /\ sections = << [title |-> "Bars",
                      items |-> <<Chars("Set up the bar and"), Chars("Set up the bar and")>>] >>

\* The lines from the first heading line on.
RECURSIVE from_first_heading(_)
from_first_heading(text_lines) ==
    IF text_lines = <<>> THEN <<>>
    ELSE IF Head(text_lines) # <<>> /\ Matches(Head(text_lines)) # {} THEN text_lines
    ELSE from_first_heading(Tail(text_lines))

\* While no heading has been read no section exists, and the first heading
\* leaves one empty section and an empty buffer.
C6_FirstHeadingStep ==
    AtLine /\ current_section = 0 =>
        IF lines[line_no] # <<>> /\ Matches(lines[line_no]) # {}
        THEN /\ sections' =
                  << [title |-> SECTION_PATTERNS[Least(Matches(lines[line_no]))].title,
                      items |-> <<>>] >>
             /\ buffer' = <<>>
        ELSE sections' = <<>> /\ current_section' = 0

\* The result of the parser is the result for the lines from the first heading on.
C6_ResultFromFirstHeading ==
    pc \notin {"main", "parse"} => sections = parse_sections(from_first_heading(lines))

\* C6: every line before the first heading is dropped, also one that is still
\* buffered when the first heading is read: the sections are those of the text
\* that starts at the first heading.
C6_PreHeadingDropped == [](C6_ResultFromFirstHeading) /\ [][C6_FirstHeadingStep]_vars

\* A line was buffered when the first heading came; the same line after the
\* heading is the only item.
C6_Witness ==
    /\ pc = "build"
    /\ lines = << Chars("Set up the bar and"), Chars("BARS"), Chars("BAR") >>
    /\ sections = << [title |-> "Bars", items |-> <<Chars("BAR")>>] >>

\* One step of the parser at a non-empty line, by the table entries that match it.
C7_HeadingLine ==
    AtLine /\ lines[line_no] # <<>> =>
        LET text == lines[line_no]
            flushed == flush_buffer(sections, current_section, buffer).sections
        IN  /\ Matches(text) # {} <=> is_section_header(text) # None
            /\ Matches(text) # {} =>
                  LET title == SECTION_PATTERNS[Least(Matches(text))].title
                  IN  /\ is_section_header(text) = title
                      /\ buffer' = <<>>
                      /\ current_section' # 0
                      /\ sections'[current_section'].title = title
                      /\ sections' \in {flushed, Append(flushed, [title |-> title, items |-> <<>>])}
            /\ Matches(text) = {} =>
                  /\ Len(sections') = Len(sections)
                  /\ current_section' = current_section

\* C7: a line is reported as a heading exactly when a prefix of the table
\* starts its uppercased form, with the title of the first such entry; the
\* parser then flushes the buffer, leaves it empty, makes a section of that
\* title current and adds nothing of the line to any item (also when the line
\* would continue the buffered item).  Any other line opens no section.
C7_HeadingIsPrefixMatch == [][C7_HeadingLine]_vars

\* "bars 2" came while "Set up the bar and" was buffered: it is a heading, not
\* a continuation.
C7_Witness ==
    /\ pc = "parse"
    /\ line_no = 4
    /\ lines = << Chars("BARS"), Chars("Set up the bar and"), Chars("bars 2") >>
    /\ buffer = <<>>
    /\ sections = << [title |-> "Bars", items |-> <<Chars("Set up the bar and")>>] >>

\* The table with the entries a and b swapped.
Swapped(a, b) ==
    [k \in 1..Len(SECTION_PATTERNS) |->
        IF k = a THEN SECTION_PATTERNS[b]
        ELSE IF k = b THEN SECTION_PATTERNS[a]
        ELSE SECTION_PATTERNS[k]]

\* A line that starts with the prefixes of two entries exists exactly when
\* one of the two prefixes starts with the other.
Overlap(a, b) == str_startswith(SECTION_PATTERNS[a].prefix, SECTION_PATTERNS[b].prefix)

\* Swapping two entries of the table changes the title of the text.
OrderMatters(text) ==
    LET upper == str_upper(text)
        title == header_scan(SECTION_PATTERNS, upper, 1)
    IN  \E a, b \in 1..Len(SECTION_PATTERNS) :
            a < b /\ header_scan(Swapped(a, b), upper, 1) # title

\* C8 as stated, for a text with the headings of "Bars" and "Bar Knowledge":
\* some line matches more than one prefix of the table, and the order of the
\* table decides its title.
C8_OrderSensitive ==
    /\ pc = "build"
    /\ \E a, b \in 1..Len(sections) :
          sections[a].title = "Bars" /\ sections[b].title = "Bar Knowledge"
    => \/ \E a, b \in 1..Len(SECTION_PATTERNS) : a # b /\ Overlap(a, b)
       \/ \E k \in 1..Len(lines) :
             Cardinality(Matches(lines[k])) > 1 \/ OrderMatters(lines[k])

\* C8 (amended): no prefix of the table starts with another one, so the line
\* the parser is at matches at most one entry, and swapping two entries of
\* the table does not change its title.
C8_OrderInsensitive ==
    /\ \A a, b \in 1..Len(SECTION_PATTERNS) : a # b => ~Overlap(a, b)
    /\ AtLine =>
          /\ Cardinality(Matches(lines[line_no])) <= 1
          /\ ~OrderMatters(lines[line_no])

\* The parser is at the heading "BAR KNOWLEDGE", after the heading "BARS".
C8_Witness ==
    /\ AtLine
    /\ lines[line_no] = Chars("BAR KNOWLEDGE")
    /\ Matches(lines[line_no]) = {5}
    /\ sections = << [title |-> "Bars", items |-> <<>>] >>

(***************************************************************************)
(* Properties of item stitching                                            *)
(***************************************************************************)

\* A line of one or more tokens that all are, uppercased, skip tokens.
SkipOnly(text) ==
    LET words == str_split(str_upper(text))
    IN  /\ words # <<>>
        /\ \A k \in 1..Len(words) :
              words[k] \in { Chars("TRAINER"), Chars("SUPERVISOR"), Chars("FROM"),
                             Chars("OASIS"), Chars("SOVEREIGN"), Chars("S"), Chars("DISP"),
                             Chars("NORTH"), Chars("SOUTH") }

\* The parser is at a line that is not empty, no heading and no skip-token line.
AtItemLine ==
    /\ AtLine
    /\ lines[line_no] # <<>>
    /\ Matches(lines[line_no]) = {}
    /\ ~SkipOnly(lines[line_no])

\* The sections after the buffered lines became an item of the current section.
Flushed ==
    IF buffer # <<>> /\ current_section # 0
    THEN [sections EXCEPT ![current_section].items =
              Append(@, normalise_item_text(str_join(buffer)))]
    ELSE sections

\* The four tests of C3 on a buffered line and the text that follows it.
C3_Extends(previous, current) ==
    LET words == str_split(previous)
        last == str_lower(words[Len(words)])
    IN  \/ current[1] = "("
        \/ char_islower(current[1])
        \/ /\ words # <<>>
           /\ last \in { Chars("and"), Chars("of"), Chars("the"), Chars("for"), Chars("to"),
                         Chars("with"), Chars("on"), Chars("into"), Chars("between"),
                         Chars("from"), Chars("all") }
        \/ /\ \E k \in 1..Len(words) : str_lower(words[k]) = Chars("between")
           /\ Len(str_split(current)) <= 2
        \/ /\ Len(str_split(current)) = 1
           /\ \A k \in 1..Len(current) : ~char_islower(current[k])

\* With a non-empty buffer, the line is appended to the buffer exactly when
\* the tests hold for the last buffered line and `current`; otherwise the
\* buffer is flushed and the line starts a new buffer.
C3_Step(current) ==
    AtItemLine /\ buffer # <<>> =>
        IF C3_Extends(buffer[Len(buffer)], current)
        THEN /\ buffer' = Append(buffer, normalise_item_text(lines[line_no]))
             /\ sections' = sections
        ELSE /\ buffer' = <<normalise_item_text(lines[line_no])>>
             /\ sections' = Flushed

\* The example of C3: the trailing "and" joins the two lines into one item.
C3_Example ==
    /\ pc \notin {"main", "parse"}
    /\ lines = << Chars("BARS"), Chars("Set up the bar and"), Chars("stock the fridge") >>
    => sections = << [title |-> "Bars",
                      items |-> <<Chars("Set up the bar and stock the fridge")>>] >>

\* C3 as stated: with a non-empty buffer an item line is appended exactly when
\* one of the four tests holds for the last buffered line and the raw line,
\* and otherwise the buffer is flushed and the line starts a new one.
C3_RawCurrent == [](C3_Example) /\ [][C3_Step(lines[line_no])]_vars

\* C3 (amended): the same, with the tests made on the normalised text of the line
\* (trailing " NA" removed, en dash spaced out), and "a single all-uppercase
\* word" is a single word without a lowercase letter.
C3_NormalisedCurrent ==
    [](C3_Example) /\ [][C3_Step(normalise_item_text(lines[line_no]))]_vars

\* "TILL NA" followed "Ab Cd": its normalised text "TILL" is one uppercase
\* word, and the two lines are one item.
C3_Witness ==
    /\ pc = "build"
    /\ lines = << Chars("BARS"), Chars("Ab Cd"), Chars("TILL NA") >>
    /\ sections = << [title |-> "Bars", items |-> <<Chars("Ab Cd TILL")>>] >>

\* An empty line empties the buffer and, with a section open, makes the
\* buffered lines an item of it; the item line after an empty line starts a
\* buffer of its own.
C4_Step ==
    /\ AtLine /\ lines[line_no] = <<>> =>
          /\ buffer' = <<>>
          /\ current_section' = current_section
          /\ sections' = Flushed
    /\ AtItemLine /\ line_no > 1 /\ lines[line_no - 1] = <<>> =>
          /\ buffer' = <<normalise_item_text(lines[line_no])>>
          /\ sections' = sections

\* The example of C4: two items of "Floor", split by the empty line.
C4_Example ==
    /\ pc \notin {"main", "parse"}
    /\ lines = << Chars("FLOOR"), Chars("Greet guests at the door"), Chars(""),
                  Chars("Maintain cleanliness of common areas") >>
    => sections = << [title |-> "Floor",
                      items |-> << Chars("Greet guests at the door"),
                                   Chars("Maintain cleanliness of common areas") >>] >>

\* C4: an empty line always ends the item in progress, also when the line
\* after it would continue the buffered line.
C4_EmptyLineFlushes == [](C4_Example) /\ [][C4_Step]_vars

\* "stock the fridge" would continue "Set up the bar and"; the empty line
\* between them makes them two items.
C4_Witness ==
    /\ pc = "build"
    /\ lines = << Chars("FLOOR"), Chars("Set up the bar and"), Chars(""),
                  Chars("stock the fridge") >>
    /\ sections = << [title |-> "Floor",
                      items |-> <<Chars("Set up the bar and"), Chars("stock the fridge")>>] >>

\* The text without its skip-token lines.
RECURSIVE without_skip_lines(_)
without_skip_lines(text_lines) ==
    IF text_lines = <<>> THEN <<>>
    ELSE IF Matches(Head(text_lines)) = {} /\ SkipOnly(Head(text_lines))
    THEN without_skip_lines(Tail(text_lines))
    ELSE <<Head(text_lines)>> \o without_skip_lines(Tail(text_lines))

\* A step at a skip-token line leaves the parser's state alone.
C5_Step ==
    AtLine /\ Matches(lines[line_no]) = {} /\ SkipOnly(lines[line_no]) =>
        UNCHANGED << sections, current_section, buffer >>

\* The sections are those of the text without its skip-token lines.
C5_Result ==
    pc \notin {"main", "parse"} => sections = parse_sections(without_skip_lines(lines))

\* C5: a skip-token line changes neither the buffer nor the current section
\* nor the sections, and the result is that of the text without such lines
\* (the lines around one are stitched as if it were not there).
C5_SkipLineIsDropped == [](C5_Result) /\ [][C5_Step]_vars

\* A skip-token line between a line and its continuation: one item.
C5_Witness ==
    /\ pc = "build"
    /\ lines = << Chars("FLOOR"), Chars("Set up the bar and"), Chars("Trainer Supervisor"),
                  Chars("stock the fridge") >>
    /\ sections = << [title |-> "Floor",
                      items |-> <<Chars("Set up the bar and stock the fridge")>>] >>

(***************************************************************************)
(* Properties of the legacy merge                                          *)
(***************************************************************************)

\* The legacy file is malformed: no JSON, no object, or an object whose
\* "dataset" or "dataset.defaults" is missing or no object.
C10_Malformed(file) ==
    \/ file.state = "invalid"
    \/ /\ file.state = "json"
       /\ \/ file.value.t # "dict"
          \/ "dataset" \notin DOMAIN file.value.m
          \/ file.value.m["dataset"].t # "dict"
          \/ "defaults" \notin DOMAIN file.value.m["dataset"].m
          \/ file.value.m["dataset"].m["defaults"].t # "dict"

\* C10: a malformed legacy file raises no error, and the generated bundle is
\* written with its generated defaults.
C10_MalformedLegacyIsNonFatal ==
    C10_Malformed(legacy) =>
        /\ error = ""
        /\ pc = "done"
        /\ output = <<new_bundle(template_sections)>>

\* The legacy file holds an object under dataset.defaults.
C11_LegacyHasDefaults(file) ==
    /\ file.state = "json"
    /\ is_dict(file.value)
    /\ "dataset" \in DOMAIN file.value.m
    /\ is_dict(file.value.m["dataset"])
    /\ "defaults" \in DOMAIN file.value.m["dataset"].m
    /\ is_dict(file.value.m["dataset"].m["defaults"])

\* The written bundle against the bundle build_bundle made of template_sections
\* and the defaults object of the legacy file.
C11_Written ==
    LET generated == new_bundle(template_sections)
        old == legacy.value.m["dataset"].m["defaults"].m
        written == output[1].dataset.defaults.m
    IN  /\ DOMAIN written = DOMAIN generated.dataset.defaults.m \cup DOMAIN old
        /\ \A k \in DOMAIN written :
              written[k] = IF k \in DOMAIN old THEN old[k]
                           ELSE generated.dataset.defaults.m[k]
        /\ output[1].template = generated.template
        /\ output[1].dataset.people = <<>>

\* The step of main that reads a legacy file with a defaults object changes
\* the defaults of the bundle and nothing else of it, and writes what it leaves.
C11_MergeStep ==
    (pc = "legacy" /\ pc' # "legacy" /\ C11_LegacyHasDefaults(legacy')) =>
        /\ pc' = "done"
        /\ bundle'[1].template = bundle[1].template
        /\ bundle'[1].dataset.people = bundle[1].dataset.people
        /\ output' = bundle'

\* C11: with a legacy bundle whose dataset.defaults is an object, the written
\* defaults hold the legacy value for every legacy key and the generated value
\* for every other key; the template is as build_bundle produced it and
\* dataset.people is the empty list.
C11_LegacyKeysOverride ==
    /\ [](C11_LegacyHasDefaults(legacy) => (pc = "done" /\ output # <<>> /\ C11_Written))
    /\ [][C11_MergeStep]_vars

\* A bundle with an item was written after a legacy file overrode the mentor.
C11_Witness ==
    /\ pc = "done"
    /\ C11_LegacyHasDefaults(legacy)
    /\ "mentor" \in DOMAIN legacy.value.m["dataset"].m["defaults"].m
    /\ output # <<>>
    /\ output[1].dataset.defaults.m["mentor"] = JStr("Sam")
    /\ output[1].dataset.defaults.m["role"] = JStr("Private Gaming Host")
    /\ output[1].template.sections # <<>>
    /\ output[1].template.sections[1].items # <<>>

\* The output of either script: the written bundle, the written workbook and
\* the parent directory of the workbook.
C12_Outputs == << output, saved, parent_dir >>

C12_NothingWritten == output = <<>> /\ saved = <<>> /\ ~parent_dir

\* A step that changes an output starts with nothing written, after the bundle
\* or the last sheet is built, and ends the run.
C12_WriteStep ==
    C12_Outputs' # C12_Outputs =>
        /\ C12_NothingWritten
        /\ \/ pc = "legacy" /\ bundle' # <<>> /\ output' = bundle'
           \/ pc = "save" /\ saved' = << [matrix |-> matrix, progress |-> progress, board |-> board] >>
        /\ pc' = "done"

\* C12: in both scripts the output is written at most once, by the last step
\* of the run and after the whole structure is built, and a run that ends in a
\* fatal error (PDF missing, bundle file missing, bundle not valid JSON, bundle
\* without a required key, or any other uncaught exception) has written
\* nothing and has not created the parent directory of the output.
C12_WriteOnceAtTheEnd ==
    /\ [](error # "" => pc = "exit" /\ C12_NothingWritten)
    /\ [][C12_WriteStep /\ pc # "done" /\ pc # "exit"]_vars

C12_Witness ==
    /\ pc = "exit"
    /\ error = "KeyError"
    /\ message = Message(OTHER_INPUT_PATH, <<"template">>)
    /\ C12_NothingWritten

\* The file load_bundle was called with.
C13_File == files[bundle_path]

\* The keys of {"dataset", "template"} that are no top-level keys of a JSON
\* value, sorted: both of them for a value that is no object.
C13_Missing(value) == IF is_dict(value) THEN missing_keys(value) ELSE <<"dataset", "template">>

\* load_bundle has raised: the run ended before a payload was returned.
C13_Raised == pc = "exit" /\ payload = <<>>

\* C13: load_bundle returns the payload only when the file exists, parses as
\* JSON and has both top-level keys "dataset" and "template"; for an absent
\* file it raises the missing-input error, for a file that is no JSON an error
\* naming the path, and for JSON without one of the keys an error that names
\* the path and lists exactly the missing keys.
C13_LoadBundleErrors ==
    /\ payload # <<>> =>
          /\ C13_File.state = "json"
          /\ C13_Missing(C13_File.value) = <<>>
          /\ payload = <<C13_File.value>>
    /\ C13_Raised /\ C13_File.state = "absent" => error = "FileNotFoundError"
    /\ C13_Raised /\ C13_File.state = "invalid" =>
          error = "ValueError" /\ message.path = bundle_path
    /\ C13_Raised /\ C13_File.state = "json" =>
          /\ error = "KeyError"
          /\ message = Message(bundle_path, C13_Missing(C13_File.value))
          /\ message.keys # <<>>

\* build_matrix_sheet has returned.
C14_MatrixBuilt == pc \in {"progress", "board", "save", "done"}

\* The number of items of a template.
C14_Items == sum_items(template_of(payload).sections)

\* The row of person p, section s and item k, counted in person order, then
\* section order, then item order.
C14_RowOf(p, s, k) ==
    matrix[(p - 1) * C14_Items + sum_items(SubSeq(template_of(payload).sections, 1, s - 1)) + k]

\* C14: build_matrix_sheet emits exactly one row per (person, section, item),
\* in person order, then section order, then item order, people times items
\* rows in all; the status of a row is the status recorded for the person under
\* the item's id when one is recorded and non-empty, and otherwise the
\* defaultStatus configured for the item (every item of a bundle of the schema
\* has one).
C14_OneRowPerTriple ==
    /\ pc = "matrix" => Len(matrix) = (loop_no - 1) * C14_Items
    /\ C14_MatrixBuilt =>
          LET people == dataset_of(payload).people
              these == template_of(payload).sections
          IN  /\ Len(matrix) = Len(people) * C14_Items
              /\ \A p \in 1..Len(people) : \A s \in 1..Len(these) :
                    \A k \in 1..Len(these[s].items) :
                       LET row == C14_RowOf(p, s, k)
                           item == these[s].items[k]
                           data == people[p].competencies
                       IN  /\ row.name = people[p].name
                           /\ row.area = these[s].title
                           /\ row.competency = item.label
                           /\ item.id \in DOMAIN data /\ data[item.id] # ""
                                  => row.status = data[item.id]
                           /\ ~(item.id \in DOMAIN data /\ data[item.id] # "")
                                  /\ item.defaultStatus # ""
                                  => row.status = item.defaultStatus

\* Two people and three sections: rows with a recorded status, with an empty
\* recorded status and with none, for an item whose defaultStatus differs from
\* the default of the dataset.
C14_Witness ==
    /\ pc = "done"
    /\ template_of(payload) = MixedTemplate
    /\ dataset_of(payload).defaults.defaultStatus = "In Progress"
    /\ [p \in 1..Len(dataset_of(payload).people) |-> dataset_of(payload).people[p].name]
           = <<"Cy", "Ann">>
    /\ [r \in 1..Len(saved[1].matrix) |-> saved[1].matrix[r].status]
           = << "Complete", "In Progress", "Not Started", "Signed Off",
                "In Progress", "In Progress", "Not Started", "Not Started" >>

\* The items of a section whose recorded status is "Complete".
C15_Completed(person, section) ==
    Cardinality({ k \in 1..Len(section.items) :
                      recorded_status(person, section.items[k]) = "Complete" })

RECURSIVE C15_TotalCompleted(_, _)
C15_TotalCompleted(person, sections_left) ==
    IF sections_left = <<>> THEN 0
    ELSE C15_Completed(person, Head(sections_left))
             + C15_TotalCompleted(person, Tail(sections_left))

\* round(n / d) of the exact quotient, halves to the even neighbour as
\* Python's round does.
C15_Round(n, d) ==
    LET q == n \div d
        r == n % d
    IN  IF 2 * r > d \/ (2 * r = d /\ q % 2 = 1) THEN q + 1 ELSE q

\* round(100 * total_completed / total_items), 0 when there are no items.
C15_Percent(total_completed, total_items) ==
    IF total_items = 0 THEN 0 ELSE C15_Round(100 * total_completed, total_items)

\* The row of a person with section cells "<completed> / <total>" and the
\* percentage p.
C15_RowShows(row, person, these, p) ==
    /\ row.name = person.name
    /\ Len(row.cells) = Len(these)
    /\ \A s \in 1..Len(these) :
          row.cells[s] = int_to_str(C15_Completed(person, these[s])) \o Chars(" / ")
                             \o int_to_str(Len(these[s].items))
    /\ p \in 0..100
    /\ row.percent = int_to_str(p) \o <<"%">>

\* C15: in build_progress_sheet the section cell of every person and section
\* is "<completed> / <total>", completed being the number of the section's
\* items whose recorded status is "Complete" and total the number of its items,
\* and the overall percentage is round(100 * total_completed / total_items)
\* over all sections, 0 without items and always an integer of 0..100; 3 of 4
\* items of the only section give "3 / 4" and 75%.
C15_RatioAndPercent ==
    pc \in {"board", "save", "done"} =>
        LET people == dataset_of(payload).people
            these == template_of(payload).sections
        IN  /\ Len(progress) = Len(people)
            /\ \A p \in 1..Len(people) :
                  C15_RowShows(progress[p], people[p], these,
                      C15_Percent(C15_TotalCompleted(people[p], these), sum_items(these)))

\* A JSON list of status options contains a JSON str.
C16_ListContains(options, status) ==
    /\ options.t = "list"
    /\ status.t = "str"
    /\ \E k \in 1..Len(options.l) : options.l[k] = status.s

\* C16: in every bundle the converter writes, with a legacy defaults merge or
\* without one, each statusOptions list contains the defaultStatus that goes
\* with it: template.statusOptions contains template.defaultStatus and the
\* defaultStatus of every item, and dataset.defaults.statusOptions contains
\* dataset.defaults.defaultStatus.
C16_OptionsContainDefault ==
    output # <<>> =>
        LET template == output[1].template
            options == { template.statusOptions[k] : k \in 1..Len(template.statusOptions) }
            defaults == output[1].dataset.defaults
        IN  /\ template.defaultStatus \in options
            /\ \A s \in 1..Len(template.sections) :
                  \A k \in 1..Len(template.sections[s].items) :
                     template.sections[s].items[k].defaultStatus \in options
            /\ C16_ListContains(dict_get(defaults, "statusOptions", JNull),
                                dict_get(defaults, "defaultStatus", JNull))

\* An item ends with a whitespace-separated "NA", in any letter case.
C17_EndsWithNA(item) ==
    /\ Len(item) >= 3
    /\ char_upper(item[Len(item)]) = "A"
    /\ char_upper(item[Len(item) - 1]) = "N"
    /\ char_isspace(item[Len(item) - 2])

\* An item is not empty, has no whitespace at either end, no en dash, and no
\* whitespace but single spaces.
C17_Clean(item) ==
    /\ item # <<>>
    /\ ~char_isspace(item[1])
    /\ ~char_isspace(item[Len(item)])
    /\ \A k \in 1..Len(item) :
          /\ item[k] # EN_DASH
          /\ char_isspace(item[k]) => item[k] = " " /\ ~char_isspace(item[k + 1])

\* The items parse_sections has emitted so far.
C17_Emitted == UNION { { sections[s].items[k] : k \in 1..Len(sections[s].items) } :
                           s \in 1..Len(sections) }

\* Every emitted item is non-empty and a fixed point of normalise_item_text,
\* with no trailing "NA", no en dash and no whitespace run.
C17_FullyNormalised ==
    \A item \in C17_Emitted :
        /\ C17_Clean(item)
        /\ ~C17_EndsWithNA(item)
        /\ normalise_item_text(item) = item

\* C17: every item parse_sections emits is non-empty, without whitespace at
\* its ends, without an en dash and without whitespace other than single
\* spaces; normalise_item_text returns it unchanged unless it ends with a
\* whitespace-separated "NA" (any letter case), which an item can, and then
\* returns it without that one " NA".
C17_NormalisedButForNA ==
    \A item \in C17_Emitted :
        /\ C17_Clean(item)
        /\ normalise_item_text(item) =
               IF C17_EndsWithNA(item) THEN SubSeq(item, 1, Len(item) - 3) ELSE item

\* The line "x NA NA NA" has left the item "x NA" and the line "A ~b  c na"
\* the item "A - b c".
C17_Witness ==
    /\ pc = "done"
    /\ Chars("x NA") \in C17_Emitted
    /\ Chars("A - b c") \in C17_Emitted

\* The number of Competency Matrix rows of the person at position p that show
\* a status.
C18_RowsShowing(p, status) ==
    LET n == sum_items(template_of(payload).sections)
    IN  Cardinality({ r \in ((p - 1) * n + 1)..(p * n) : matrix[r].status = status })

\* C18: for every person the Not Started, In Progress and Complete counts of
\* the Progress Summary row are the numbers of the person's Competency Matrix
\* rows showing these statuses, and so add up with the rows of any other
\* status to the number of items: an item without a recorded status counts
\* under the default status the matrix shows for it.
C18_CountsMatchMatrix ==
    pc \in {"board", "save", "done"} =>
        \A p \in 1..Len(dataset_of(payload).people) :
            /\ progress[p].not_started = C18_RowsShowing(p, "Not Started")
            /\ progress[p].in_progress = C18_RowsShowing(p, "In Progress")
            /\ progress[p].complete = C18_RowsShowing(p, "Complete")

====
